---- MODULE Spec2Model ----
(***************************************************************************)
(* Exercise tracker REST API (index.js, the User schema, ErrorHandler).    *)
(*                                                                         *)
(* The state is the document store (the users and exercises collections),  *)
(* the server clock and time zone, and the requests in flight: each        *)
(* request is a handler suspended at one of its awaits. One action is one  *)
(* run of a handler between two awaits: the store executes the awaited     *)
(* command and the handler continues to its next await or to its end.      *)
(*                                                                         *)
(* JavaScript strings are sequences of one-character strings.              *)
(* The store is taken to be reachable (mongoose buffers commands until it  *)
(* is connected); a store outage is not modelled.                          *)
(***************************************************************************)
EXTENDS Integers, Sequences, FiniteSets, TLC

(***************************************************************************)
(* Bounds of the model.                                                    *)
(***************************************************************************)
MaxUsers == 2
MaxExercises == 1
MaxTicks == 1
\* Instants per day: instant 0 of a day is its midnight.
DayUnits == 2
\* Size of the pre-populated log of the logs specification.
MaxBulk == 21

(***************************************************************************)
(* JavaScript values of a form-encoded body or a query string.             *)
(***************************************************************************)
Undefined == [type |-> "undefined", val |-> <<>>]
Str(s) == [type |-> "string", val |-> s]
\* username[]=amy parses (extended: true) to an array: typeof "object".
Arr(s) == [type |-> "object", val |-> s]

\* JavaScript truthiness of a body or query value.
Truthy(v) == CASE v.type = "undefined" -> FALSE
               [] v.type = "string" -> Len(v.val) > 0
               [] OTHER -> TRUE

(***************************************************************************)
(* String.prototype.toUpperCase / toLowerCase on the model's alphabet.     *)
(* "ß" has no single-character upper case: toUpperCase gives "SS".         *)
(***************************************************************************)
LowerChars == <<"a", "m", "s", "y">>
UpperChars == <<"A", "M", "S", "Y">>

IndexOf(seq, c) == IF \E i \in 1..Len(seq) : seq[i] = c
                   THEN CHOOSE i \in 1..Len(seq) : seq[i] = c
                   ELSE 0

CharToUpper(c) == IF IndexOf(LowerChars, c) > 0 THEN <<UpperChars[IndexOf(LowerChars, c)]>>
                  ELSE IF c = "ß" THEN <<"S", "S">>
                  ELSE <<c>>

CharToLower(c) == IF IndexOf(UpperChars, c) > 0 THEN <<LowerChars[IndexOf(UpperChars, c)]>>
                  ELSE <<c>>

RECURSIVE toUpperCase(_)
toUpperCase(s) == IF s = <<>> THEN <<>> ELSE CharToUpper(Head(s)) \o toUpperCase(Tail(s))

RECURSIVE toLowerCase(_)
toLowerCase(s) == IF s = <<>> THEN <<>> ELSE CharToLower(Head(s)) \o toLowerCase(Tail(s))

\* value.charAt(0): the empty string when there is no first character.
charAt0(s) == IF s = <<>> THEN <<>> ELSE <<Head(s)>>
\* value.slice(1)
slice1(s) == IF s = <<>> THEN <<>> ELSE Tail(s)

\* Mutant: the setter capitalizes and leaves the rest of the value as typed.
usernameSet_RestAsTyped(value) == toUpperCase(charAt0(value)) \o slice1(value)

\* The setter of userSchema.username.
usernameSet(value) == toUpperCase(charAt0(value)) \o toLowerCase(slice1(value))

(***************************************************************************)
(* Identifiers. An ObjectId is 24 hexadecimal characters.                  *)
(***************************************************************************)
ObjectIdLen == 24
HexLower == <<"a", "b", "c", "d", "e", "f">>
HexUpper == <<"A", "B", "C", "D", "E", "F">>
HexChars == {"0", "1", "2", "3", "4", "5", "6", "7", "8", "9"}
            \cup {HexLower[i] : i \in 1..6} \cup {HexUpper[i] : i \in 1..6}

\* Mutant: only the length of the id is checked.
ObjectIdIsValid_LengthOnly(s) == Len(s) = ObjectIdLen

\* mongoose.Types.ObjectId.isValid on a path parameter (a string).
ObjectIdIsValid(s) == Len(s) = ObjectIdLen /\ \A i \in 1..Len(s) : s[i] \in HexChars

\* The store's cast of a valid id string to an ObjectId: the hex digits, case dropped.
CastObjectId(s) == [i \in 1..Len(s) |->
                      IF IndexOf(HexUpper, s[i]) > 0 THEN HexLower[IndexOf(HexUpper, s[i])] ELSE s[i]]

DigitChars == <<"0", "1", "2", "3", "4", "5", "6", "7", "8", "9">>

\* The id the store generates for its n-th document.
NewObjectId(n) == [i \in 1..ObjectIdLen |-> IF i = ObjectIdLen THEN DigitChars[n + 1] ELSE "0"]

(***************************************************************************)
(* Calendar dates. A date text is the string "YYYY-MM-DD"; an instant is a *)
(* point of the UTC time line, counted in units of 1/DayUnits day from     *)
(* 0001-01-01T00:00Z (day 1).                                              *)
(***************************************************************************)
IsDigit(c) == IndexOf(DigitChars, c) > 0
DigitVal(c) == IndexOf(DigitChars, c) - 1

RECURSIVE Num(_)
\* The number a string of digits denotes.
Num(s) == IF s = <<>> THEN 0 ELSE 10 * Num(SubSeq(s, 1, Len(s) - 1)) + DigitVal(s[Len(s)])

IsDigits(s) == Len(s) > 0 /\ \A i \in 1..Len(s) : IsDigit(s[i])

IsLeap(y) == (y % 4 = 0 /\ y % 100 # 0) \/ y % 400 = 0
DaysInMonth(y, m) == IF m = 2 THEN (IF IsLeap(y) THEN 29 ELSE 28)
                     ELSE IF m \in {4, 6, 9, 11} THEN 30 ELSE 31
DaysBeforeYear(y) == 365 * (y - 1) + ((y - 1) \div 4) - ((y - 1) \div 100) + ((y - 1) \div 400)
RECURSIVE DaysBeforeMonth(_, _)
DaysBeforeMonth(y, m) == IF m = 1 THEN 0 ELSE DaysBeforeMonth(y, m - 1) + DaysInMonth(y, m - 1)
\* The day number of a calendar date.
Ordinal(y, m, d) == DaysBeforeYear(y) + DaysBeforeMonth(y, m) + d

\* The years the model's clock and inputs stay within.
Years == 2023..2025
YearOf(ord) == CHOOSE y \in Years : DaysBeforeYear(y) < ord /\ ord <= DaysBeforeYear(y + 1)
MonthOf(ord) == LET y == YearOf(ord)
                IN CHOOSE m \in 1..12 : /\ DaysBeforeYear(y) + DaysBeforeMonth(y, m) < ord
                                        /\ ord <= DaysBeforeYear(y) + DaysBeforeMonth(y, m) + DaysInMonth(y, m)
DayOf(ord) == ord - DaysBeforeYear(YearOf(ord)) - DaysBeforeMonth(YearOf(ord), MonthOf(ord))

Pad2(n) == <<DigitChars[(n \div 10) + 1], DigitChars[(n % 10) + 1]>>
Pad4(n) == Pad2(n \div 100) \o Pad2(n % 100)
\* The text "YYYY-MM-DD" of a day number.
DateText(ord) == Pad4(YearOf(ord)) \o <<"-">> \o Pad2(MonthOf(ord)) \o <<"-">> \o Pad2(DayOf(ord))

\* The shape DDDD-DD-DD that moment's strict "YYYY-MM-DD" parse requires.
StrictShape(s) == /\ Len(s) = 10
                  /\ s[5] = "-" /\ s[8] = "-"
                  /\ \A i \in {1, 2, 3, 4, 6, 7, 9, 10} : IsDigit(s[i])
TextYear(s) == Num(SubSeq(s, 1, 4))
TextMonth(s) == Num(SubSeq(s, 6, 7))
TextDay(s) == Num(SubSeq(s, 9, 10))

\* moment(date, "YYYY-MM-DD", true).isValid(): the strict shape and a real date.
isValidFormat(s) == /\ StrictShape(s)
                    /\ TextMonth(s) \in 1..12
                    /\ TextDay(s) \in 1..DaysInMonth(TextYear(s), TextMonth(s))
TextOrdinal(s) == Ordinal(TextYear(s), TextMonth(s), TextDay(s))

\* moment(text): the text's midnight in the server's time zone, as an instant.
MomentLocal(s, offset) == TextOrdinal(s) * DayUnits - offset
\* moment(instant).format("YYYY-MM-DD"): the instant's day in the server's zone.
formatDate(instant, offset) == DateText((instant + offset) \div DayUnits)
\* The store's cast of a "YYYY-MM-DD" string to a Date: midnight UTC.
CastDate(s) == TextOrdinal(s) * DayUnits

(***************************************************************************)
(* State.                                                                  *)
(***************************************************************************)
VARIABLES
  users,      \* the users collection, in insertion order: [_id, username]
  exercises,  \* the exercises collection, in insertion order
  now,        \* the server clock, an instant
  utcOffset,  \* the server's time zone: local time = UTC + utcOffset instants
  req         \* the request each client has in flight

vars == <<users, exercises, now, utcOffset, req>>

\* The clients whose requests interleave.
Clients == {"c1", "c2"}

NoUser == [_id |-> <<>>, username |-> <<>>]
NoBody == [username |-> Undefined, description |-> Undefined,
           duration |-> Undefined, date |-> Undefined]
NoQuery == [from |-> Undefined, to |-> Undefined, limit |-> Undefined]
NoLocal == [user |-> NoUser, date |-> 0, gte |-> <<>>, lte |-> <<>>, limit |-> 0]
NoRes == [headersSent |-> FALSE, status |-> 0, json |-> [kind |-> "none"]]

\* A client with no request in flight.
IdleReq == [route |-> "idle", pc |-> "idle", id |-> <<>>, path |-> "",
            body |-> NoBody, query |-> NoQuery, local |-> NoLocal, res |-> NoRes,
            nextCalls |-> 0, okSends |-> 0, errorHandlerCalls |-> 0,
            finalHandlerCalls |-> 0, socketDestroyed |-> FALSE]

NewReq(route) == [IdleReq EXCEPT !.route = route, !.pc = "received"]

(***************************************************************************)
(* Responses and error forwarding.                                         *)
(***************************************************************************)
generateError(message, statusCode) == [message |-> message, statusCode |-> statusCode]

\* finalhandler, the router's end: it cannot answer once the headers are sent
\* and destroys the socket.
FinalHandler(err, rq) ==
  LET q == [rq EXCEPT !.finalHandlerCalls = @ + 1]
  IN IF q.res.headersSent
     THEN [q EXCEPT !.socketDestroyed = TRUE]
     ELSE [q EXCEPT !.res = [headersSent |-> TRUE, status |-> err.statusCode,
                             json |-> [kind |-> "html"]]]

\* The error middleware: res.status(status).json({success: false, status, message}).
\* res.json throws when the headers are already sent; the router forwards that
\* to its end.
ErrorHandler(err, rq) ==
  LET q == [rq EXCEPT !.errorHandlerCalls = @ + 1]
      status == IF err.statusCode = 0 THEN 500 ELSE err.statusCode
      message == IF err.message = "" THEN "Something went wrong" ELSE err.message
  IN IF q.res.headersSent
     THEN FinalHandler(err, q)
     ELSE [q EXCEPT !.res = [headersSent |-> TRUE, status |-> status,
                             json |-> [kind |-> "error", success |-> FALSE,
                                       status |-> status, message |-> message]]]

\* next(err) called by a handler. The router keeps its position in the stack of
\* layers: the first call reaches ErrorHandler, the last layer; a later call
\* of the same request starts after it and reaches the router's end.
NextErr(rq, err) ==
  LET q == [rq EXCEPT !.nextCalls = @ + 1]
  IN IF rq.nextCalls = 0 THEN ErrorHandler(err, q) ELSE FinalHandler(err, q)

\* res.status(status).json(json) of a handler's success path, when the headers
\* are not yet sent.
SendOk(rq, status, json) ==
  [rq EXCEPT !.okSends = @ + 1,
             !.res = [headersSent |-> TRUE, status |-> status, json |-> json]]

Done(rq) == [rq EXCEPT !.pc = "done"]

SetReq(c, rq) == req' = [req EXCEPT ![c] = rq]

Amy == <<"a", "m", "y">>
Say == <<"s", "a", "y">>

(***************************************************************************)
(* The store's commands.                                                   *)
(***************************************************************************)
Usernames == {users[i].username : i \in 1..Len(users)}

\* Mutant: the unique index is checked against the value as typed, before the setter.
UserCreateDuplicate_AsTyped(username) == username \in Usernames

\* User.create({username}): the setter runs, then the insert under the unique
\* index on username, which compares the stored strings. TRUE when the insert
\* fails with the duplicate-key error (code 11000).
UserCreateDuplicate(username) == usernameSet(username) \in Usernames

UserCreateDoc(username) == [_id |-> NewObjectId(Len(users) + 1), username |-> usernameSet(username)]

\* Mutant: the lookup answers with a user for every id.
UserFindById_AnyId(id) == [_id |-> CastObjectId(id), username |-> Amy]

\* User.findById(id) rejects with a CastError for a string that is no ObjectId.
FindByIdCastError(id) == ~(Len(id) = ObjectIdLen /\ \A i \in 1..Len(id) : id[i] \in HexChars)

\* User.findById(id), for an id that casts to an ObjectId; NoUser is null.
UserFindById(id) ==
  IF \E i \in 1..Len(users) : users[i]._id = CastObjectId(id)
  THEN users[CHOOSE i \in 1..Len(users) : users[i]._id = CastObjectId(id)]
  ELSE NoUser

(***************************************************************************)
(* GET /api/users                                                          *)
(***************************************************************************)
ReceiveListUsers(c) ==
  /\ req[c].pc = "idle"
  /\ SetReq(c, [NewReq("listUsers") EXCEPT !.pc = "User.find"])
  /\ UNCHANGED <<users, exercises, now, utcOffset>>

ListUsersRespond(c) ==
  /\ req[c].route = "listUsers" /\ req[c].pc = "User.find"
  /\ SetReq(c, Done(SendOk(req[c], 200, [kind |-> "users", users |-> users])))
  /\ UNCHANGED <<users, exercises, now, utcOffset>>

(***************************************************************************)
(* POST /api/users                                                         *)
(***************************************************************************)
\* The handler's check of req.body.username.
InvalidUsername(username) ==
  \/ ~Truthy(username)
  \/ username.type # "string"
  \/ Len(username.val) < 3

ReceiveCreateUser(c, username) ==
  /\ req[c].pc = "idle"
  /\ LET rq == [NewReq("createUser") EXCEPT !.body.username = username]
     IN IF InvalidUsername(username)
        THEN SetReq(c, Done(NextErr(rq, generateError(
               "Invalid username. It must be a string with at least 3 characters.", 400))))
        ELSE SetReq(c, [rq EXCEPT !.pc = "User.create"])
  /\ UNCHANGED <<users, exercises, now, utcOffset>>

CreateUserRespond(c) ==
  /\ req[c].route = "createUser" /\ req[c].pc = "User.create"
  /\ LET username == req[c].body.username.val
     IN IF UserCreateDuplicate(username)
        THEN /\ SetReq(c, Done(NextErr(req[c], generateError("User already exists", 400))))
             /\ users' = users
        ELSE /\ users' = Append(users, UserCreateDoc(username))
             /\ SetReq(c, Done(SendOk(req[c], 201, [kind |-> "user", user |-> UserCreateDoc(username)])))
  /\ UNCHANGED <<exercises, now, utcOffset>>

(***************************************************************************)
(* app.all("*"): any other path                                            *)
(***************************************************************************)
ReceiveFallback(c, path) ==
  /\ req[c].pc = "idle"
  /\ LET rq == [NewReq("fallback") EXCEPT !.path = path]
     IN SetReq(c, Done(NextErr(rq,
          IF path = "/api/users//exercises"
          THEN generateError("Invalid ID format. Ensure the ID is exactly 24 characters long and corresponds to an existing user.", 400)
          ELSE generateError("The requested path was not found on this server.", 404))))
  /\ UNCHANGED <<users, exercises, now, utcOffset>>

(***************************************************************************)
(* POST /api/users/:_id/exercises                                          *)
(***************************************************************************)
\* The Exercise schema: duration is a required number. A form value that is not
\* a number fails the document's validation.
ExerciseDocInvalid(body) == ~IsDigits(body.duration.val)

\* Exercise.create({userId, duration, description, date}): the stored document.
ExerciseCreateDoc(id, body, date) ==
  [userId |-> CastObjectId(id), description |-> body.description.val,
   duration |-> Num(body.duration.val), date |-> date]

ReceiveCreateExercise(c, id, body) ==
  /\ req[c].pc = "idle"
  /\ LET rq == [NewReq("createExercise") EXCEPT !.id = id, !.body = body]
     IN IF ~ObjectIdIsValid(id)
        THEN SetReq(c, Done(NextErr(rq, generateError(
               "Invalid or missing ID. The ID must be exactly 24 characters long.", 400))))
        ELSE SetReq(c, [rq EXCEPT !.pc = "User.findById"])
  /\ UNCHANGED <<users, exercises, now, utcOffset>>

\* From the user lookup to the await of Exercise.create.
ExerciseFindUser(c) ==
  /\ req[c].route = "createExercise" /\ req[c].pc = "User.findById"
  /\ LET rq == req[c]
         body == rq.body
     IN IF UserFindById(rq.id) = NoUser
        THEN SetReq(c, Done(NextErr(rq, generateError(
               "User not found. Please check the ID and try again.", 404))))
        ELSE IF ~Truthy(body.description) \/ ~Truthy(body.duration)
        THEN SetReq(c, Done(NextErr(rq, generateError(
               "Description and duration are required. Please provide them and try again.", 400))))
        ELSE IF Truthy(body.date) /\ ~isValidFormat(body.date.val)
        THEN SetReq(c, Done(NextErr(rq, generateError(
               "Invalid date. Please use the yyyy-mm-dd format and ensure date is a valid calendar date.", 400))))
        ELSE SetReq(c, [rq EXCEPT !.pc = "Exercise.create",
                                  !.local.date = IF Truthy(body.date)
                                                 THEN MomentLocal(body.date.val, utcOffset)
                                                 ELSE now])
  /\ UNCHANGED <<users, exercises, now, utcOffset>>

ExerciseCreateRespond(c) ==
  /\ req[c].route = "createExercise" /\ req[c].pc = "Exercise.create"
  /\ LET rq == req[c]
         doc == ExerciseCreateDoc(rq.id, rq.body, rq.local.date)
     IN IF ExerciseDocInvalid(rq.body)
        THEN /\ SetReq(c, Done(NextErr(rq, generateError("Server error", 500))))
             /\ exercises' = exercises
        ELSE /\ exercises' = Append(exercises, doc)
             /\ SetReq(c, Done(SendOk(rq, 200,
                  [kind |-> "exercise", userId |-> doc.userId,
                   description |-> doc.description, duration |-> doc.duration,
                   date |-> formatDate(doc.date, utcOffset)])))
  /\ UNCHANGED <<users, now, utcOffset>>

(***************************************************************************)
(* GET /api/users/:_id/logs                                                *)
(***************************************************************************)
InvalidDateText == <<"I", "n", "v", "a", "l", "i", "d", " ", "d", "a", "t", "e">>

\* formatDate(from) of the logs handler, for a text of the ISO shape:
\* moment(text).format("YYYY-MM-DD") is "Invalid date" for no real date.
formatQueryDate(s, offset) ==
  IF isValidFormat(s) THEN formatDate(MomentLocal(s, offset), offset) ELSE InvalidDateText

DefaultLimit == 20
\* Mutant: a limit of 0 is passed on as given, which the store reads as no limit.
QueryLimit_ZeroAsGiven(limit) == IF ~Truthy(limit) THEN DefaultLimit ELSE Num(limit.val)

\* The limit statement, then the cast of .limit(limit) to a number.
QueryLimit(limit) ==
  IF ~Truthy(limit) THEN DefaultLimit
  ELSE IF Num(limit.val) = 0 THEN 1
  ELSE Num(limit.val)

\* The filter {userId, date: {$gte, $lte}} cannot be cast when a bound is no date.
FilterCastError(local) ==
  \/ local.gte # <<>> /\ ~isValidFormat(local.gte)
  \/ local.lte # <<>> /\ ~isValidFormat(local.lte)

\* Whether a stored exercise matches the filter.
Matches(e, id, local) ==
  /\ e.userId = CastObjectId(id)
  /\ local.gte # <<>> => e.date >= CastDate(local.gte)
  /\ local.lte # <<>> => e.date <= CastDate(local.lte)

RECURSIVE SelectMatching(_, _, _)
SelectMatching(seq, id, local) ==
  IF seq = <<>> THEN <<>>
  ELSE IF Matches(Head(seq), id, local)
       THEN <<Head(seq)>> \o SelectMatching(Tail(seq), id, local)
       ELSE SelectMatching(Tail(seq), id, local)

Take(seq, n) == SubSeq(seq, 1, IF n < Len(seq) THEN n ELSE Len(seq))

\* Exercise.find(filter).limit(limit): the first matches in the store's order;
\* a limit of 0 is no limit.
ExerciseFind(id, local) ==
  IF local.limit = 0 THEN SelectMatching(exercises, id, local)
  ELSE Take(SelectMatching(exercises, id, local), local.limit)

ReceiveGetLogs(c, id, query) ==
  /\ req[c].pc = "idle"
  /\ SetReq(c, [NewReq("getLogs") EXCEPT !.id = id, !.query = query, !.pc = "User.findById"])
  /\ UNCHANGED <<users, exercises, now, utcOffset>>

\* From the user lookup to the await of Exercise.find.
LogsFindUser(c) ==
  /\ req[c].route = "getLogs" /\ req[c].pc = "User.findById"
  /\ LET rq == req[c]
         q == rq.query
     IN IF FindByIdCastError(rq.id)
        \* the catch block
        THEN SetReq(c, Done(NextErr(rq, generateError("Error retrieving exercises", 500))))
        ELSE IF UserFindById(rq.id) = NoUser
        THEN SetReq(c, Done(NextErr(rq, generateError(
               "User not found. Please check the ID and try again.", 404))))
        ELSE SetReq(c, [rq EXCEPT
               !.pc = "Exercise.find",
               !.local.user = UserFindById(rq.id),
               !.local.gte = IF Truthy(q.from) THEN formatQueryDate(q.from.val, utcOffset) ELSE <<>>,
               !.local.lte = IF Truthy(q.to) THEN formatQueryDate(q.to.val, utcOffset) ELSE <<>>,
               !.local.limit = QueryLimit(q.limit)])
  /\ UNCHANGED <<users, exercises, now, utcOffset>>

\* The entries of the response: description, duration and the formatted date.
LogEntries(found, offset) ==
  [i \in 1..Len(found) |-> [description |-> found[i].description,
                            duration |-> found[i].duration,
                            date |-> formatDate(found[i].date, offset)]]

\* Mutant: the two 404 messages are swapped.
LogsAfterFind_MessagesSwapped(rq, found, offset) ==
  LET q == rq.query
      r1 == IF Len(found) = 0
            THEN IF Truthy(q.from) \/ Truthy(q.to)
                 THEN NextErr(rq, generateError(
                        "Exercises not found for this user. Please check the exercises of another user.", 404))
                 ELSE NextErr(rq, generateError(
                        "No exercises found for the specified dates. Please adjust the date range and try again.", 404))
            ELSE rq
      json == [kind |-> "logs", username |-> rq.local.user.username, count |-> Len(found),
               _id |-> rq.id, log |-> LogEntries(found, offset)]
  IN IF r1.res.headersSent
     THEN NextErr([r1 EXCEPT !.okSends = @ + 1], generateError("Error retrieving exercises", 500))
     ELSE SendOk(r1, 200, json)

\* What the handler does with the exercises found: with none it forwards a 404
\* and goes on to res.status(200).json(...), which throws once the headers are
\* sent; the catch block forwards a second error.
LogsAfterFind(rq, found, offset) ==
  LET q == rq.query
      r1 == IF Len(found) = 0
            THEN IF Truthy(q.from) \/ Truthy(q.to)
                 THEN NextErr(rq, generateError(
                        "No exercises found for the specified dates. Please adjust the date range and try again.", 404))
                 ELSE NextErr(rq, generateError(
                        "Exercises not found for this user. Please check the exercises of another user.", 404))
            ELSE rq
      json == [kind |-> "logs", username |-> rq.local.user.username, count |-> Len(found),
               _id |-> rq.id, log |-> LogEntries(found, offset)]
  IN IF r1.res.headersSent
     THEN NextErr([r1 EXCEPT !.okSends = @ + 1], generateError("Error retrieving exercises", 500))
     ELSE SendOk(r1, 200, json)

LogsRespond(c) ==
  /\ req[c].route = "getLogs" /\ req[c].pc = "Exercise.find"
  /\ LET rq == req[c]
     IN IF FilterCastError(rq.local)
        THEN SetReq(c, Done(NextErr(rq, generateError("Error retrieving exercises", 500))))
        ELSE SetReq(c, Done(LogsAfterFind(rq, ExerciseFind(rq.id, rq.local), utcOffset)))
  /\ UNCHANGED <<users, exercises, now, utcOffset>>

(***************************************************************************)
(* The clock, and the end of a request.                                    *)
(***************************************************************************)
\* 2024-02-29T00:00Z
StartInstant == Ordinal(2024, 2, 29) * DayUnits

Tick ==
  /\ now < StartInstant + MaxTicks
  /\ now' = now + 1
  /\ UNCHANGED <<users, exercises, utcOffset, req>>

\* The client has its response and may send its next request.
Complete(c) ==
  /\ req[c].pc = "done"
  /\ SetReq(c, IdleReq)
  /\ UNCHANGED <<users, exercises, now, utcOffset>>

(***************************************************************************)
(* The requests the clients send.                                          *)
(***************************************************************************)
UsernameInputs ==
  { Undefined, Arr(Amy), Str(<<"a", "m">>), Str(Amy), Str(<<"A", "M", "Y">>),
    Str(<<"a", "M", "Y">>), Str(<<"ß", "a", "y">>), Str(<<"s", "s", "a", "y">>) }

\* "123", 24 characters that are not all hexadecimal, and the store's ids.
BadIds == { <<"1", "2", "3">>, [i \in 1..ObjectIdLen |-> "z"] }
IdInputs == BadIds \cup { NewObjectId(n) : n \in 1..MaxUsers }

Run == Str(<<"r", "u", "n">>)
Thirty == Str(<<"3", "0">>)
DescriptionInputs == { Undefined, Str(<<>>), Run }
DurationInputs == { Undefined, Thirty, Str(<<"a">>) }

Feb29 == <<"2", "0", "2", "4", "-", "0", "2", "-", "2", "9">>
Feb30 == <<"2", "0", "2", "4", "-", "0", "2", "-", "3", "0">>
Feb29Loose == <<"2", "0", "2", "4", "-", "2", "-", "2", "9">>
DateInputs == { Undefined, Str(Feb29), Str(Feb30), Str(Feb29Loose) }

Body(d, n, t) == [NoBody EXCEPT !.description = d, !.duration = n, !.date = t]
BodyInputs == { Body(d, n, t) : d \in DescriptionInputs, n \in DurationInputs, t \in DateInputs }

QueryDateInputs == { Undefined, Str(Feb29), Str(Feb30) }
LimitInputs == { Undefined, Str(<<"0">>), Str(<<"1">>), Str(<<"2">>) }
Query(f, t, l) == [from |-> f, to |-> t, limit |-> l]
QueryInputs == { Query(f, t, l) : f \in QueryDateInputs, t \in QueryDateInputs, l \in LimitInputs }

PathInputs == { "/api/users//exercises", "/api/other" }

\* Half a day east or west of UTC, or UTC.
UtcOffsets == { 0 - (DayUnits \div 2), 0, DayUnits \div 2 }

Init ==
  /\ users = <<>>
  /\ exercises = <<>>
  /\ now = StartInstant
  /\ utcOffset \in UtcOffsets
  /\ req = [c \in Clients |-> IdleReq]

\* The store has room for one more user, one more exercise.
UsersRoom == Len(users) < MaxUsers
ExercisesRoom == Len(exercises) < MaxExercises
BulkRoom == Len(exercises) < MaxBulk

(***************************************************************************)
(* The whole server: every route, two clients whose requests interleave.   *)
(***************************************************************************)
Next ==
  \/ Tick
  \/ \E c \in Clients :
       \/ ReceiveListUsers(c)
       \/ ListUsersRespond(c)
       \/ \E username \in {Str(Amy), Str(Say), Str(<<"a", "m">>)} : ReceiveCreateUser(c, username)
       \/ UsersRoom /\ CreateUserRespond(c)
       \/ \E id \in {<<"1", "2", "3">>, NewObjectId(1), NewObjectId(2)},
             body \in {Body(Run, Thirty, Undefined), Body(Undefined, Thirty, Undefined)} :
            ReceiveCreateExercise(c, id, body)
       \/ ExerciseFindUser(c)
       \/ ExercisesRoom /\ ExerciseCreateRespond(c)
       \/ \E id \in {<<"1", "2", "3">>, NewObjectId(1)},
             query \in {NoQuery, Query(Undefined, Str(Feb29), Undefined)} :
            ReceiveGetLogs(c, id, query)
       \/ LogsFindUser(c)
       \/ LogsRespond(c)
       \/ \E path \in PathInputs : ReceiveFallback(c, path)
       \/ Complete(c)

Spec == Init /\ [][Next]_vars

(***************************************************************************)
(* The user routes, two clients, every username input.                     *)
(***************************************************************************)
NextUsers ==
  \E c \in Clients :
       \/ ReceiveListUsers(c)
       \/ ListUsersRespond(c)
       \/ \E username \in UsernameInputs : ReceiveCreateUser(c, username)
       \/ UsersRoom /\ CreateUserRespond(c)
       \/ Complete(c)

SpecUsers == Init /\ [][NextUsers]_vars

(***************************************************************************)
(* The exercise route, one client, every id and body input.                *)
(***************************************************************************)
NextExercises ==
  \/ Tick
  \/ \E username \in {Str(Amy)} : ReceiveCreateUser("c1", username)
  \/ UsersRoom /\ CreateUserRespond("c1")
  \/ \E id \in IdInputs, body \in BodyInputs : ReceiveCreateExercise("c1", id, body)
  \/ ExerciseFindUser("c1")
  \/ ExercisesRoom /\ ExerciseCreateRespond("c1")
  \/ Complete("c1")

SpecExercises == Init /\ [][NextExercises]_vars

(***************************************************************************)
(* The logs route, one client, every id and query input.                   *)
(***************************************************************************)
NextLogs ==
  \/ Tick
  \/ \E username \in {Str(Amy), Str(Say)} : ReceiveCreateUser("c1", username)
  \/ UsersRoom /\ CreateUserRespond("c1")
  \/ \E id \in {NewObjectId(1), NewObjectId(2)},
        body \in {Body(Run, Thirty, Undefined), Body(Run, Thirty, Str(Feb29))} :
       ReceiveCreateExercise("c1", id, body)
  \/ ExerciseFindUser("c1")
  \/ ExercisesRoom /\ ExerciseCreateRespond("c1")
  \/ \E id \in IdInputs, query \in QueryInputs : ReceiveGetLogs("c1", id, query)
  \/ LogsFindUser("c1")
  \/ LogsRespond("c1")
  \/ Complete("c1")

SpecLogs == Init /\ [][NextLogs]_vars

(***************************************************************************)
(* The logs route over a long log: one user, up to MaxBulk exercises.      *)
(***************************************************************************)
BulkLimitInputs == LimitInputs \cup { Str(<<"2", "5">>) }

NextBulk ==
  \/ \E username \in {Str(Amy)} : ReceiveCreateUser("c1", username)
  \/ UsersRoom /\ CreateUserRespond("c1")
  \/ \E body \in {Body(Run, Thirty, Str(Feb29))} : ReceiveCreateExercise("c1", NewObjectId(1), body)
  \/ ExerciseFindUser("c1")
  \/ BulkRoom /\ ExerciseCreateRespond("c1")
  \/ \E limit \in BulkLimitInputs, to \in {Undefined, Str(Feb29)} :
       ReceiveGetLogs("c1", NewObjectId(1), Query(Undefined, to, limit))
  \/ LogsFindUser("c1")
  \/ LogsRespond("c1")
  \/ Complete("c1")

SpecBulk == Init /\ [][NextBulk]_vars

(***************************************************************************)
(* Properties.                                                             *)
(***************************************************************************)
\* The step in which client c's handler of the route leaves the await at pc.
Resumes(c, route, pc) == req[c].route = route /\ req[c].pc = pc /\ req'[c].pc # pc
\* The step in which client c's request of the route is received.
Received(c, route) == req[c].pc = "idle" /\ req'[c].route = route
ErrorIs(rq, status, message) ==
  /\ rq.res.status = status
  /\ rq.res.json.kind = "error"
  /\ rq.res.json.message = message

\* C1: in every reachable state no two stored users have the same username,
\* the usernames being compared after normalization (first character
\* uppercased, the rest lowercased), that is case-insensitively.
C1_NoTwoUsersShareNormalizedUsername ==
  \A i, j \in 1..Len(users) :
    i # j => usernameSet(users[i].username) # usernameSet(users[j].username)

\* The insert of a POST /api/users: refused when the normalized username is
\* stored, and otherwise the one that a concurrent request for the same
\* normalized username will find stored.
C2_DuplicateStep(c) ==
  Resumes(c, "createUser", "User.create") =>
    LET normalized == usernameSet(req[c].body.username.val)
    IN IF normalized \in Usernames
       THEN /\ req'[c].pc = "done"
            /\ ErrorIs(req'[c], 400, "User already exists")
            /\ users' = users
       ELSE /\ req'[c].res.status = 201
            /\ \A d \in Clients \ {c} :
                 (req[d].route = "createUser" /\ req[d].pc = "User.create"
                    /\ usernameSet(req[d].body.username.val) = normalized)
                 => usernameSet(req'[d].body.username.val) \in {users'[i].username : i \in 1..Len(users')}
\* Of two answered creations of one normalized username, one is the 400.
C2_NotBothCreated ==
  \A c, d \in Clients :
    (/\ c # d
     /\ req[c].route = "createUser" /\ req[c].pc = "done" /\ req[c].res.status = 201
     /\ req[d].route = "createUser" /\ req[d].pc = "done"
     /\ req[d].body.username.type = "string"
     /\ usernameSet(req[d].body.username.val) = usernameSet(req[c].body.username.val))
    => req[d].res.status = 400
\* C2: a POST /api/users whose normalized username is already stored, also one
\* that lost the race against a concurrent request, is answered 400 "User
\* already exists" and adds no user; two creations of the same normalized
\* username never both get 201, and the first to reach the store gets it.
C2_DuplicateUsernameRejected ==
  [](C2_NotBothCreated) /\ [][\A c \in Clients : C2_DuplicateStep(c)]_vars

\* C2 witness: two requests with the usernames "amy" and "AMY" answered, one
\* with 201 and the other with 400 "User already exists", one user stored.
C2_Witness ==
  \E c, d \in Clients :
    /\ req[c].pc = "done" /\ req[c].body.username = Str(Amy) /\ req[c].res.status = 201
    /\ req[d].pc = "done" /\ req[d].body.username = Str(<<"A", "M", "Y">>)
    /\ ErrorIs(req[d], 400, "User already exists")
    /\ Len(users) = 1

\* The normalized form of a username, and the usernames to reject.
C3_Expected(u) == toUpperCase(<<u[1]>>) \o toLowerCase(SubSeq(u, 2, Len(u)))
C3_Rejected(v) == v.type = "undefined" \/ v.type # "string" \/ Len(v.val) < 3
C3_ReceiveStep(c) ==
  Received(c, "createUser") =>
    /\ users' = users
    /\ IF C3_Rejected(req'[c].body.username)
       THEN req'[c].pc = "done" /\ req'[c].res.status = 400 /\ req'[c].res.json.kind = "error"
       ELSE req'[c].pc = "User.create" /\ ~req'[c].res.headersSent
C3_CreateStep(c) ==
  (Resumes(c, "createUser", "User.create")
     /\ C3_Expected(req[c].body.username.val) \notin Usernames) =>
    LET expected == C3_Expected(req[c].body.username.val)
    IN /\ Len(users') = Len(users) + 1
       /\ SubSeq(users', 1, Len(users)) = users
       /\ users'[Len(users')].username = expected
       /\ req'[c].pc = "done"
       /\ req'[c].res.status = 201
       /\ req'[c].res.json.kind = "user"
       /\ req'[c].res.json.user = users'[Len(users')]
\* C3: a username that is a string of length >= 3 whose normalized form is not
\* stored adds exactly one user, stored with the first character uppercased and
\* the rest lowercased, and is answered 201 with that user; a username that is
\* missing, not a string or shorter than 3 is answered 400 and adds no user.
C3_CreateUserNormalizes ==
  [][\A c \in Clients : C3_ReceiveStep(c) /\ C3_CreateStep(c)]_vars

\* C3 witness: the input "aMY" was stored and answered as "Amy".
C3_Witness ==
  \E c \in Clients :
    /\ req[c].pc = "done" /\ req[c].res.status = 201
    /\ req[c].body.username = Str(<<"a", "M", "Y">>)
    /\ req[c].res.json.user.username = <<"A", "m", "y">>
    /\ \E i \in 1..Len(users) : users[i] = req[c].res.json.user

\* The four checks of POST /api/users/:id/exercises, on the request's inputs.
C4_WellFormed(id) == Len(id) = 24 /\ \A i \in 1..Len(id) : id[i] \in HexChars
C4_UserExists(id) == \E i \in 1..Len(users) : users[i]._id = CastObjectId(id)
C4_Supplied(v) == v.type # "undefined" /\ v.val # <<>>
C4_BodyComplete(body) == C4_Supplied(body.description) /\ C4_Supplied(body.duration)
C4_DateOk(body) == C4_Supplied(body.date) => isValidFormat(body.date.val)
C4_ReceiveStep(c) ==
  Received(c, "createExercise") =>
    /\ exercises' = exercises
    /\ IF ~C4_WellFormed(req'[c].id)
       THEN /\ req'[c].pc = "done"
            /\ ErrorIs(req'[c], 400, "Invalid or missing ID. The ID must be exactly 24 characters long.")
       ELSE req'[c].pc = "User.findById" /\ ~req'[c].res.headersSent
C4_LookupStep(c) ==
  Resumes(c, "createExercise", "User.findById") =>
    /\ exercises' = exercises
    /\ IF ~C4_UserExists(req[c].id)
       THEN /\ req'[c].pc = "done"
            /\ ErrorIs(req'[c], 404, "User not found. Please check the ID and try again.")
       ELSE IF ~C4_BodyComplete(req[c].body)
       THEN /\ req'[c].pc = "done"
            /\ ErrorIs(req'[c], 400, "Description and duration are required. Please provide them and try again.")
       ELSE IF ~C4_DateOk(req[c].body)
       THEN /\ req'[c].pc = "done"
            /\ ErrorIs(req'[c], 400, "Invalid date. Please use the yyyy-mm-dd format and ensure date is a valid calendar date.")
       ELSE req'[c].pc = "Exercise.create" /\ ~req'[c].res.headersSent
C4_CreatedOnlyAfterChecks ==
  exercises' # exercises =>
    \E c \in Clients :
      /\ Resumes(c, "createExercise", "Exercise.create")
      /\ C4_WellFormed(req[c].id) /\ C4_UserExists(req[c].id)
      /\ C4_BodyComplete(req[c].body) /\ C4_DateOk(req[c].body)
      /\ exercises' = Append(exercises, exercises'[Len(exercises')])
      /\ exercises'[Len(exercises')].userId = CastObjectId(req[c].id)
\* C4: POST /api/users/:id/exercises checks in a fixed order and the first
\* failing check decides the response: a malformed id gives 400 before any
\* user lookup, a well-formed id with no user gives 404 whatever the body, then
\* a falsy description or duration gives 400, then a supplied date that is no
\* strict YYYY-MM-DD calendar date gives 400; an exercise is created only when
\* all four checks pass.
C4_ChecksInOrder ==
  [][/\ \A c \in Clients : C4_ReceiveStep(c) /\ C4_LookupStep(c)
     /\ C4_CreatedOnlyAfterChecks]_vars

\* C4 witness: a well-formed id of no user, with no description and a date that
\* is no calendar date, was answered 404.
C4_Witness ==
  \E c \in Clients :
    /\ req[c].route = "createExercise" /\ req[c].pc = "done"
    /\ C4_WellFormed(req[c].id) /\ ~C4_UserExists(req[c].id)
    /\ req[c].body.description = Undefined
    /\ req[c].body.date = Str(Feb30)
    /\ req[c].res.status = 404
    /\ Len(users) = 1

\* C5: GET /api/users/:id/logs answers 404 for every path id for which no user
\* exists, ids that are no well-formed store identifiers (such as "123")
\* included.
C5_NoUserGives404 ==
  \A c \in Clients :
    (/\ req[c].route = "getLogs" /\ req[c].pc = "done"
     /\ ~\E i \in 1..Len(users) : users[i]._id = req[c].id)
    => req[c].res.status = 404

\* The answer to a logs query that matches no exercise of an existing user.
C6_Supplied(v) == v.type # "undefined" /\ v.val # <<>>
C6_NoMatch(rq) ==
  ~\E i \in 1..Len(exercises) : Matches(exercises[i], rq.id, rq.local)
C6_Step(c) ==
  (/\ Resumes(c, "getLogs", "Exercise.find")
   /\ ~FilterCastError(req[c].local)
   /\ C6_NoMatch(req[c])) =>
    /\ req'[c].pc = "done"
    /\ IF C6_Supplied(req[c].query.from) \/ C6_Supplied(req[c].query.to)
       THEN ErrorIs(req'[c], 404, "No exercises found for the specified dates. Please adjust the date range and try again.")
       ELSE ErrorIs(req'[c], 404, "Exercises not found for this user. Please check the exercises of another user.")
C6_NoEmptyLog ==
  \A c \in Clients :
    (req[c].route = "getLogs" /\ req[c].pc = "done" /\ req[c].res.status = 200)
    => /\ req[c].res.json.kind = "logs"
       /\ Len(req[c].res.json.log) > 0
\* C6: for an existing user with no matching exercise (from and to, when
\* supplied, being dates) the client receives a 404 error body, with
\* "Exercises not found for this user..." when neither from nor to was supplied
\* and "No exercises found for the specified dates..." otherwise; never a 200
\* with an empty log, never a 500.
C6_EmptyLogIs404 == [](C6_NoEmptyLog) /\ [][\A c \in Clients : C6_Step(c)]_vars

\* C6 witness: the user has an exercise, none in the range asked for; the 404
\* for the dates was sent, and the handler went on to its success response.
C6_Witness ==
  \E c \in Clients :
    /\ req[c].route = "getLogs" /\ req[c].pc = "done"
    /\ req[c].local.user # NoUser
    /\ \E i \in 1..Len(exercises) : exercises[i].userId = req[c].id
    /\ ErrorIs(req[c], 404, "No exercises found for the specified dates. Please adjust the date range and try again.")
    /\ req[c].okSends = 1

\* The exercises of the path id whose day, as the server formats it, lies in
\* the range of days asked for.
C9_Day(e) == TextOrdinal(formatDate(e.date, utcOffset))
C9_InRange(e, rq) ==
  /\ e.userId = rq.id
  /\ C6_Supplied(rq.query.from) => TextOrdinal(rq.query.from.val) <= C9_Day(e)
  /\ C6_Supplied(rq.query.to) => C9_Day(e) <= TextOrdinal(rq.query.to.val)
RECURSIVE C9_Select(_, _)
C9_Select(seq, rq) ==
  IF seq = <<>> THEN <<>>
  ELSE IF C9_InRange(Head(seq), rq) THEN <<Head(seq)>> \o C9_Select(Tail(seq), rq)
  ELSE C9_Select(Tail(seq), rq)
C9_Step(c) ==
  (/\ Resumes(c, "getLogs", "Exercise.find")
   /\ ~FilterCastError(req[c].local)
   /\ C9_Select(exercises, req[c]) # <<>>) =>
    /\ req'[c].res.status = 200
    /\ req'[c].res.json.kind = "logs"
    /\ req'[c].res.json.log =
         LogEntries(Take(C9_Select(exercises, req[c]), req[c].local.limit), utcOffset)
C9_Sound(c) ==
  (Resumes(c, "getLogs", "Exercise.find") /\ req'[c].res.status = 200) =>
    \A k \in 1..Len(req'[c].res.json.log) :
      LET d == TextOrdinal(req'[c].res.json.log[k].date)
      IN /\ C6_Supplied(req[c].query.from) => TextOrdinal(req[c].query.from.val) <= d
         /\ C6_Supplied(req[c].query.to) => d <= TextOrdinal(req[c].query.to.val)
\* C9: every entry of the log of a 200 response is an exercise of the path id
\* whose date d satisfies from <= d when from is supplied and d <= to when to is
\* supplied, both inclusive at day granularity, so that an exercise dated on the
\* from day or on the to day is returned; no other exercise appears.
C9_LogIsTheDayRange == [][\A c \in Clients : C9_Sound(c) /\ C9_Step(c)]_vars

\* The number of stored exercises that match a logs request's filter.
C7_Matching(rq) ==
  Cardinality({i \in 1..Len(exercises) : Matches(exercises[i], rq.id, rq.local)})
C7_Min(a, b) == IF a < b THEN a ELSE b
C7_Step(c) ==
  (/\ Resumes(c, "getLogs", "Exercise.find")
   /\ ~FilterCastError(req[c].local)
   /\ C7_Matching(req[c]) >= 1) =>
    LET limit == req[c].query.limit
        n == Len(req'[c].res.json.log)
    IN /\ req'[c].res.status = 200
       /\ req'[c].res.json.kind = "logs"
       /\ req'[c].res.json.count = n
       /\ limit.type = "undefined" => n <= 20 /\ n >= 1
       /\ limit = Str(<<"0">>) => n = 1
       /\ (limit.type = "string" /\ Num(limit.val) > 0) =>
            n = C7_Min(Num(limit.val), C7_Matching(req[c]))
\* C7: a logs query with limit=0 for a user with at least one matching
\* exercise returns exactly 1 entry; with limit absent at most 20; with another
\* positive limit L, min(L, number of matching exercises); count is the length
\* of log.
C7_LimitOfTheLog == [][\A c \in Clients : C7_Step(c)]_vars

\* C7 witness: limit=0 was answered with one entry of a log of more than 20.
C7_Witness ==
  \E c \in Clients :
    /\ req[c].route = "getLogs" /\ req[c].pc = "done"
    /\ req[c].query.limit = Str(<<"0">>)
    /\ req[c].res.status = 200
    /\ Len(req[c].res.json.log) = 1
    /\ Len(exercises) > 20

\* C8: every request follows exactly one of the two paths, the success
\* response or the error forwarded to the error middleware: no handler both
\* forwards an error and sends a success response, the error middleware is
\* invoked at most once per request, and exactly one response is sent.
C8_OnePathPerRequest ==
  \A c \in Clients :
    /\ ~(req[c].nextCalls > 0 /\ req[c].okSends > 0)
    /\ req[c].nextCalls <= 1
    /\ req[c].errorHandlerCalls <= 1
    /\ req[c].pc = "done" =>
         /\ req[c].res.headersSent
         /\ req[c].nextCalls + req[c].okSends = 1

\* Referential integrity, and what a step may change of the store.
C10_Referenced ==
  \A i \in 1..Len(exercises) : \E j \in 1..Len(users) : users[j]._id = exercises[i].userId
C10_IsPrefix(s, t) == Len(s) <= Len(t) /\ SubSeq(t, 1, Len(s)) = s
C10_Step ==
  /\ C10_IsPrefix(users, users')
  /\ C10_IsPrefix(exercises, exercises')
  /\ users' # users =>
       \E c \in Clients : /\ Resumes(c, "createUser", "User.create")
                          /\ req'[c].res.status = 201
  /\ exercises' # exercises =>
       \E c \in Clients : /\ Resumes(c, "createExercise", "Exercise.create")
                          /\ req'[c].res.status = 200
                          /\ \E j \in 1..Len(users) : users[j]._id = req[c].id
  /\ (\E c \in Clients : req'[c].pc = "done" /\ req[c].pc # "done"
                         /\ req'[c].res.json.kind = "error")
       => users' = users /\ exercises' = exercises
\* C10: every stored exercise has the id of a stored user; the users and the
\* exercises only grow, and only by the success of a POST that found its user:
\* the GET routes and every rejected request leave both unchanged.
C10_ExercisesReferToUsers == [](C10_Referenced) /\ [][C10_Step]_vars

\* C10 witness: an exercise of the second user is stored while another
\* request for that user is in flight.
C10_Witness ==
  /\ Len(users) = 2
  /\ Len(exercises) >= 1
  /\ exercises[1].userId = users[2]._id
  /\ \E c \in Clients : req[c].route = "createExercise" /\ req[c].pc = "done"
                        /\ req[c].res.status = 200
  /\ \E c \in Clients : req[c].route = "createExercise" /\ req[c].pc = "Exercise.create"

====
